---- MODULE Spec2Model ----
(***************************************************************************)
(* Model of the disk block layer of simpledb (src/main.go): Page buffers,  *)
(* BlockID values and the FileManager with its cache of open file handles. *)
(*                                                                         *)
(* The file system is modelled at the level of the system calls the code   *)
(* makes: os.Create (create or truncate, new handle at offset 0),          *)
(* File.Seek, File.Read, File.Write and File.Stat.  A file is a sequence   *)
(* of bytes; an open handle is a (name, offset) pair.                      *)
(*                                                                         *)
(* Spec      : one caller; every FileManager method is one atomic action.  *)
(* SpecConc  : the same manager, then one call per goroutine, interleaved  *)
(*             at the granularity of the statements of the methods.        *)
(*                                                                         *)
(* Block numbers are drawn from 0..MaxBlk, a range in which                *)
(* blknum * blocksize does not overflow the native int.                    *)
(***************************************************************************)
EXTENDS Integers, Sequences, FiniteSets, TLC

\* ------------------------------------------------------------------ bounds
BlockSize == 2
MaxBlk == 2
MaxByte == 1

Files == {"f"}
Threads == {1, 2}

BlockNums == 0..MaxBlk
\* Buffer sizes a caller can give a Page: newPage and newPageFromBytes take
\* any size, the manager's block size being the intended one.
PageSizes == {BlockSize - 1, BlockSize}
\* The pages the callers write: two pages of block size, one of them with
\* its bytes not all equal, and a page one byte short.
FullBufs ==
    {[i \in 1..BlockSize |-> IF i = 1 THEN MaxByte ELSE 0],
     [i \in 1..BlockSize |-> MaxByte]}
Bufs == FullBufs \cup {[i \in 1..BlockSize - 1 |-> MaxByte]}

Max(a, b) == IF a > b THEN a ELSE b
Min(a, b) == IF a < b THEN a ELSE b

VARIABLES
    disk,      \* the directory: file name -> contents (sequence of bytes)
    handles,   \* open *os.File values of the process: sequence of [name, pos]
    files,     \* fm.files: file name -> index into handles, 0 when absent
    alive,     \* FALSE once a panic has terminated the process
    last,      \* the call that completed last, its arguments and its outcome
    prev,      \* the call that completed before it, when that was a write
    fresh,     \* BlockIDs returned by append of this manager and not written since
    forked,    \* TRUE once the goroutines have been started
    pc,        \* goroutine -> position in its call
    loc,       \* goroutine -> local variables of its call
    page,      \* a Page the caller works on: its buf
    phist,     \* the accessor calls made on the page, oldest first
    directory, \* fm.directory: "open", "nil", or "none" before construction
    build,     \* the width in bits of int in the build of the program
    seeks,     \* the offsets passed to Seek for large block numbers, oldest first
    shadow     \* BlockID -> what this manager's calls have stored in the block

\* The variables of the Page accessors, which the FileManager methods leave alone.
aux == <<page, phist, directory, build, seeks>>

vars == <<disk, handles, files, alive, last, prev, fresh, forked, pc, loc, page, phist,
          directory, build, seeks, shadow>>

\* ------------------------------------------------------------------ values
newBlockID(filename, blknum) == [filename |-> filename, blknum |-> blknum]

newPage(blocksize) == [buf |-> [i \in 1..blocksize |-> 0]]

newPageFromBytes(b) == [buf |-> b]

\* ------------------------------------------------------------------ file system
\* The state the methods act on, as one value.
W == [disk |-> disk, handles |-> handles, files |-> files]

\* os.Create: creates the file or truncates it, returns a new handle at offset 0.
osCreate(w, name) ==
    [w EXCEPT !.disk[name] = <<>>,
              !.handles = Append(@, [name |-> name, pos |-> 0])]

\* Mutant of Seek: the offset is taken from the end of the file (whence 2).
Seek_fromEnd(w, f, off) ==
    [w EXCEPT !.handles[f].pos = Len(w.disk[w.handles[f].name]) + off]

\* File.Seek(off, 0): a negative offset is an error, which the callers ignore.
Seek(w, f, off) ==
    IF off < 0 THEN w ELSE [w EXCEPT !.handles[f].pos = off]

\* The contents of a file after writing buf at offset pos (a hole reads as zeros).
WriteAt(d, pos, buf) ==
    [i \in 1..Max(Len(d), pos + Len(buf)) |->
        IF i > pos /\ i <= pos + Len(buf) THEN buf[i - pos]
        ELSE IF i <= Len(d) THEN d[i] ELSE 0]

\* File.Write(buf): writes all of buf at the handle's offset and advances it.
fileWrite(w, f, buf) ==
    LET h == w.handles[f] IN
    [w |-> [w EXCEPT !.disk[h.name] = WriteAt(@, h.pos, buf),
                     !.handles[f].pos = h.pos + Len(buf)],
     n |-> Len(buf), err |-> FALSE]

\* File.Read(buf): reads up to len(buf) bytes at the handle's offset and
\* advances it; at end of file it reads nothing and returns io.EOF.
fileRead(w, f, buf) ==
    LET h == w.handles[f]
        d == w.disk[h.name]
        n == Min(Len(buf), Max(0, Len(d) - h.pos))
    IN  [w |-> [w EXCEPT !.handles[f].pos = h.pos + n],
         buf |-> [i \in 1..Len(buf) |-> IF i <= n THEN d[h.pos + i] ELSE buf[i]],
         n |-> n, err |-> (n = 0)]

\* File.Stat().Size()
statSize(w, f) == Len(w.disk[w.handles[f].name])

\* ------------------------------------------------------------------ FileManager
\* Mutant of getFile: the handle opened first is returned for every file name.
getFile_anyFile(w, filename) ==
    IF \E n \in DOMAIN w.files : w.files[n] # 0
    THEN [w |-> w, f |-> 1]
    ELSE LET c == osCreate(w, filename)
             f == Len(c.handles)
         IN  [w |-> [c EXCEPT !.files[filename] = f], f |-> f]

getFile(w, filename) ==
    IF w.files[filename] # 0
    THEN [w |-> w, f |-> w.files[filename]]
    ELSE LET c == osCreate(w, filename)
             f == Len(c.handles)
         IN  [w |-> [c EXCEPT !.files[filename] = f], f |-> f]

readOffset(blknum, blocksize) == blknum * blocksize

\* Mutant of writeOffset: the offset of the block after.
writeOffset_next(blknum, blocksize) == (blknum + 1) * blocksize

writeOffset(blknum, blocksize) == blknum * blocksize

\* Mutant of read: the number of bytes read is not compared with the page size.
read_noShortCheck(w, blk, p) ==
    LET g == getFile(w, blk.filename)
        s == Seek(g.w, g.f, readOffset(blk.blknum, BlockSize))
        r == fileRead(s, g.f, p.buf)
    IN  [w |-> r.w, buf |-> r.buf,
         status |-> IF r.err THEN "panic" ELSE "ok"]

read(w, blk, p) ==
    LET g == getFile(w, blk.filename)
        s == Seek(g.w, g.f, readOffset(blk.blknum, BlockSize))
        r == fileRead(s, g.f, p.buf)
    IN  [w |-> r.w, buf |-> r.buf,
         status |-> IF r.err \/ r.n # Len(p.buf) THEN "panic" ELSE "ok"]

write(w, blk, p) ==
    LET g == getFile(w, blk.filename)
        s == Seek(g.w, g.f, writeOffset(blk.blknum, BlockSize))
        r == fileWrite(s, g.f, p.buf)
    IN  [w |-> r.w,
         status |-> IF r.err \/ r.n # Len(p.buf) THEN "panic" ELSE "ok"]

length(w, filename) ==
    LET g == getFile(w, filename)
    IN  [w |-> g.w, len |-> statSize(g.w, g.f) \div BlockSize]

\* Mutant of append: the block is returned without being written.
append_noWrite(w, filename) ==
    LET l == length(w, filename)
        blk == newBlockID(filename, l.len)
        g == getFile(l.w, blk.filename)
        s == Seek(g.w, g.f, writeOffset(blk.blknum, BlockSize))
    IN  [w |-> s, blk |-> blk, status |-> "ok"]

\* Mutant of append: the zero block is written at the handle's current offset.
append_noSeek(w, filename) ==
    LET l == length(w, filename)
        blk == newBlockID(filename, l.len)
        b == [i \in 1..BlockSize |-> 0]
        g == getFile(l.w, blk.filename)
        r == fileWrite(g.w, g.f, b)
    IN  [w |-> r.w, blk |-> blk,
         status |-> IF r.err \/ r.n # Len(b) THEN "panic" ELSE "ok"]

append(w, filename) ==
    LET l == length(w, filename)
        blk == newBlockID(filename, l.len)
        b == [i \in 1..BlockSize |-> 0]
        g == getFile(l.w, blk.filename)
        s == Seek(g.w, g.f, writeOffset(blk.blknum, BlockSize))
        r == fileWrite(s, g.f, b)
    IN  [w |-> r.w, blk |-> blk,
         status |-> IF r.err \/ r.n # Len(b) THEN "panic" ELSE "ok"]

\* ------------------------------------------------------------------ one caller
NoCall == [op |-> "new", filename |-> "", blknum |-> 0, buf |-> <<>>, status |-> "ok"]

Idle == [op |-> "none", filename |-> "", blknum |-> 0, buf |-> <<>>, f |-> 0, phase |-> "io"]

\* What the calls of a manager have stored in a block: nothing (the block, when
\* it is inside the file, is a hole or the zeros of append), a page of block
\* size, or a page of another size.
NotWritten == [kind |-> "none", buf |-> <<>>]

Stored(b) == IF Len(b) = BlockSize THEN [kind |-> "page", buf |-> b]
             ELSE [kind |-> "partial", buf |-> b]

NoShadow == [blk \in {newBlockID(n, k) : n \in DOMAIN disk, k \in BlockNums} |-> NotWritten]

Init ==
    /\ disk = [n \in Files |-> <<>>]
    /\ handles = <<>>
    /\ files = [n \in Files |-> 0]
    /\ alive = TRUE
    /\ last = NoCall
    /\ prev = NoCall
    /\ fresh = {}
    /\ forked = FALSE
    /\ pc = [t \in Threads |-> "idle"]
    /\ loc = [t \in Threads |-> Idle]
    /\ page = newPage(BlockSize)
    /\ phist = <<>>
    /\ directory = "open"
    /\ build = 64
    /\ seeks = <<>>
    /\ shadow = NoShadow

Install(w) ==
    /\ disk' = w.disk
    /\ handles' = w.handles
    /\ files' = w.files

\* A panic is not recovered anywhere (main has no recover): the process ends.
Outcome(status) == alive' = (status = "ok")

\* newFileManager on the same directory, in a new process: the files of the
\* directory are as they were left, no file is open.
Restart ==
    /\ ~forked
    /\ handles' = <<>>
    /\ files' = [n \in DOMAIN files |-> 0]
    /\ alive' = TRUE
    /\ last' = NoCall
    /\ prev' = NoCall
    /\ fresh' = {}
    /\ shadow' = NoShadow
    /\ UNCHANGED aux
    /\ UNCHANGED <<disk, forked, pc, loc>>

CallRead(blk, size) ==
    /\ alive /\ ~forked
    /\ prev' = IF last.op = "write" THEN last ELSE NoCall
    /\ LET r == read(W, blk, newPage(size)) IN
        /\ Install(r.w)
        /\ Outcome(r.status)
        /\ last' = [op |-> "read", filename |-> blk.filename, blknum |-> blk.blknum,
                    buf |-> r.buf, status |-> r.status]
    /\ UNCHANGED <<aux, shadow>>
    /\ UNCHANGED <<fresh, forked, pc, loc>>

CallWrite(blk, b) ==
    /\ alive /\ ~forked
    /\ prev' = IF last.op = "write" THEN last ELSE NoCall
    /\ LET r == write(W, blk, newPageFromBytes(b)) IN
        /\ Install(r.w)
        /\ Outcome(r.status)
        /\ last' = [op |-> "write", filename |-> blk.filename, blknum |-> blk.blknum,
                    buf |-> b, status |-> r.status]
    /\ fresh' = fresh \ {blk}
    /\ shadow' = [shadow EXCEPT ![blk] = Stored(b)]
    /\ UNCHANGED aux
    /\ UNCHANGED <<forked, pc, loc>>

CallAppend(filename) ==
    /\ alive /\ ~forked
    /\ prev' = IF last.op = "write" THEN last ELSE NoCall
    /\ LET r == append(W, filename) IN
        /\ r.blk.blknum <= MaxBlk
        /\ Install(r.w)
        /\ Outcome(r.status)
        /\ last' = [op |-> "append", filename |-> r.blk.filename, blknum |-> r.blk.blknum,
                    buf |-> <<>>, status |-> r.status]
        /\ fresh' = fresh \cup {r.blk}
        /\ shadow' = [shadow EXCEPT ![r.blk] = NotWritten]
    /\ UNCHANGED aux
    /\ UNCHANGED <<forked, pc, loc>>

CallLength(filename) ==
    /\ alive /\ ~forked
    /\ prev' = IF last.op = "write" THEN last ELSE NoCall
    /\ LET r == length(W, filename) IN
        /\ Install(r.w)
        /\ last' = [op |-> "length", filename |-> filename, blknum |-> r.len,
                    buf |-> <<>>, status |-> "ok"]
    /\ UNCHANGED <<aux, shadow>>
    /\ UNCHANGED <<alive, fresh, forked, pc, loc>>

Call ==
    \/ \E n \in Files, k \in BlockNums, s \in PageSizes : CallRead(newBlockID(n, k), s)
    \/ \E n \in Files, k \in BlockNums, b \in Bufs : CallWrite(newBlockID(n, k), b)
    \/ \E n \in Files : CallAppend(n)
    \/ \E n \in Files : CallLength(n)

Next ==
    \/ Call
    \/ Restart

Spec == Init /\ [][Next]_vars

\* ------------------------------------------------------------------ goroutines
\* The manager has no lock: calls made from several goroutines interleave
\* between any two statements.  Each goroutine makes one call; pc is the
\* statement it is at and loc holds the locals of the call.

ZeroBlock == [i \in 1..BlockSize |-> 0]

\* The calls a goroutine can make, with pages of the manager's block size.
Calls ==
    {[op |-> "read", filename |-> n, blknum |-> k, buf |-> newPage(BlockSize).buf,
      f |-> 0, phase |-> "io"] : n \in Files, k \in BlockNums}
    \cup
    {[op |-> "write", filename |-> n, blknum |-> k, buf |-> b,
      f |-> 0, phase |-> "io"] : n \in Files, k \in BlockNums, b \in FullBufs}
    \cup
    {[op |-> o, filename |-> n, blknum |-> 0, buf |-> ZeroBlock,
      f |-> 0, phase |-> "length"] : o \in {"append", "length"}, n \in Files}

\* go ...: every goroutine starts one call on the shared manager.
Fork ==
    /\ alive /\ ~forked
    /\ forked' = TRUE
    /\ \E c \in [Threads -> Calls] : loc' = c
    /\ pc' = [t \in Threads |-> "lookup"]
    /\ UNCHANGED <<aux, shadow>>
    /\ UNCHANGED <<disk, handles, files, alive, last, prev, fresh>>

Running(t, at) == alive /\ forked /\ pc[t] = at

\* Where getFile returns to: length's Stat, or the Seek of read/write/append.
AfterGetFile(t) == IF loc[t].phase = "length" THEN "stat" ELSE "seek"

\* f, ok := fm.files[filename]; if ok { return f }
Lookup(t) ==
    /\ Running(t, "lookup")
    /\ IF files[loc[t].filename] # 0
       THEN /\ loc' = [loc EXCEPT ![t].f = files[loc[t].filename]]
            /\ pc' = [pc EXCEPT ![t] = AfterGetFile(t)]
       ELSE /\ pc' = [pc EXCEPT ![t] = "create"]
            /\ UNCHANGED loc
    /\ UNCHANGED <<aux, shadow>>
    /\ UNCHANGED <<disk, handles, files, alive, last, prev, fresh, forked>>

\* f, err := os.Create(p)
Create(t) ==
    /\ Running(t, "create")
    /\ LET c == osCreate(W, loc[t].filename) IN
        /\ Install(c)
        /\ loc' = [loc EXCEPT ![t].f = Len(c.handles)]
    /\ pc' = [pc EXCEPT ![t] = "store"]
    /\ UNCHANGED <<aux, shadow>>
    /\ UNCHANGED <<alive, last, prev, fresh, forked>>

\* fm.files[filename] = f; return f
Store(t) ==
    /\ Running(t, "store")
    /\ files' = [files EXCEPT ![loc[t].filename] = loc[t].f]
    /\ pc' = [pc EXCEPT ![t] = AfterGetFile(t)]
    /\ UNCHANGED <<aux, shadow>>
    /\ UNCHANGED <<disk, handles, alive, last, prev, fresh, forked, loc>>

\* length: stat, err := f.Stat(); return int(stat.Size()) / fm.blocksize
\* and, in append, newblknum := fm.length(filename) followed by the second getFile.
Stat(t) ==
    /\ Running(t, "stat")
    /\ LET len == statSize(W, loc[t].f) \div BlockSize IN
        IF loc[t].op = "length"
        THEN /\ loc' = [loc EXCEPT ![t].blknum = len]
             /\ pc' = [pc EXCEPT ![t] = "done"]
        ELSE /\ loc' = [loc EXCEPT ![t].blknum = len, ![t].phase = "io"]
             /\ pc' = [pc EXCEPT ![t] = "lookup"]
    /\ UNCHANGED <<aux, shadow>>
    /\ UNCHANGED <<disk, handles, files, alive, last, prev, fresh, forked>>

\* f.Seek(offset, 0)
SeekStep(t) ==
    /\ Running(t, "seek")
    /\ LET off == IF loc[t].op = "read"
                  THEN readOffset(loc[t].blknum, BlockSize)
                  ELSE writeOffset(loc[t].blknum, BlockSize)
       IN  Install(Seek(W, loc[t].f, off))
    /\ pc' = [pc EXCEPT ![t] = "xfer"]
    /\ UNCHANGED <<aux, shadow>>
    /\ UNCHANGED <<alive, last, prev, fresh, forked, loc>>

\* f.Read(p.buf) or f.Write(p.buf), and the checks on its result.
Transfer(t) ==
    /\ Running(t, "xfer")
    /\ IF loc[t].op = "read"
       THEN LET r == fileRead(W, loc[t].f, loc[t].buf)
                ok == ~r.err /\ r.n = Len(loc[t].buf)
            IN  /\ Install(r.w)
                /\ loc' = [loc EXCEPT ![t].buf = r.buf]
                /\ pc' = [pc EXCEPT ![t] = IF ok THEN "done" ELSE "panic"]
                /\ alive' = ok
       ELSE LET r == fileWrite(W, loc[t].f, loc[t].buf)
                ok == ~r.err /\ r.n = Len(loc[t].buf)
            IN  /\ Install(r.w)
                /\ pc' = [pc EXCEPT ![t] = IF ok THEN "done" ELSE "panic"]
                /\ alive' = ok
                /\ UNCHANGED loc
    /\ UNCHANGED <<aux, shadow>>
    /\ UNCHANGED <<last, prev, fresh, forked>>

Step(t) ==
    \/ Lookup(t)
    \/ Create(t)
    \/ Store(t)
    \/ Stat(t)
    \/ SeekStep(t)
    \/ Transfer(t)

\* What the program does before it starts the goroutines: it grows the file.
Setup ==
    \/ \E n \in Files : CallAppend(n)
    \/ \E n \in Files : CallLength(n)

NextConc ==
    \/ Setup
    \/ Fork
    \/ \E t \in Threads : Step(t)

SpecConc == Init /\ [][NextConc]_vars

\* ------------------------------------------------------------------ two files
\* A caller that works with pages of block size on the files of Files and,
\* between these calls, writes and appends to a second file of the directory.

OtherFile == "g"

InitTwo ==
    /\ disk = [n \in Files \cup {OtherFile} |-> <<>>]
    /\ handles = <<>>
    /\ files = [n \in Files \cup {OtherFile} |-> 0]
    /\ alive = TRUE
    /\ last = NoCall
    /\ prev = NoCall
    /\ fresh = {}
    /\ forked = FALSE
    /\ pc = [t \in Threads |-> "idle"]
    /\ loc = [t \in Threads |-> Idle]
    /\ page = newPage(BlockSize)
    /\ phist = <<>>
    /\ directory = "open"
    /\ build = 64
    /\ seeks = <<>>
    /\ shadow = NoShadow

\* The page written to the other file.
OtherBuf == [i \in 1..BlockSize |-> MaxByte]

NextTwo ==
    \/ \E n \in Files, k \in BlockNums : CallRead(newBlockID(n, k), BlockSize)
    \/ \E n \in Files, k \in BlockNums, b \in FullBufs : CallWrite(newBlockID(n, k), b)
    \/ \E n \in Files : CallAppend(n)
    \/ CallWrite(newBlockID(OtherFile, 0), OtherBuf)
    \/ CallAppend(OtherFile)

SpecTwo == InitTwo /\ [][NextTwo]_vars

\* ------------------------------------------------------------------ construction
\* newFileManager against a directory in any condition: each system call it
\* makes has one of the outcomes the operating system can give.  Spec above is
\* the case where the directory opens at once.

OpenOutcomes == {"ok", "ErrNotExist", "error"}
MkdirOutcomes == {"ok", "ErrExist", "error"}

\* open1 is the outcome of the first os.Open, mkdir of os.Mkdir, open2 of the
\* second os.Open, whose error is discarded.
newFileManager(open1, mkdir, open2) ==
    IF open1 = "ErrNotExist"
    THEN IF mkdir = "error"
         THEN [status |-> "panic", directory |-> "none"]
         ELSE [status |-> "ok", directory |-> IF open2 = "ok" THEN "open" ELSE "nil"]
    ELSE IF open1 # "ok"
         THEN [status |-> "panic", directory |-> "none"]
         ELSE [status |-> "ok", directory |-> "open"]

NotConstructed == [NoCall EXCEPT !.op = "none"]

InitNew ==
    /\ disk = [n \in Files |-> <<>>]
    /\ handles = <<>>
    /\ files = [n \in Files |-> 0]
    /\ alive = FALSE
    /\ last = NotConstructed
    /\ prev = NoCall
    /\ fresh = {}
    /\ forked = FALSE
    /\ pc = [t \in Threads |-> "idle"]
    /\ loc = [t \in Threads |-> Idle]
    /\ page = newPage(BlockSize)
    /\ phist = <<>>
    /\ directory = "none"
    /\ build = 64
    /\ seeks = <<>>
    /\ shadow = NoShadow

New(open1, mkdir, open2) ==
    /\ last = NotConstructed
    /\ LET r == newFileManager(open1, mkdir, open2) IN
        /\ directory' = r.directory
        /\ Outcome(r.status)
        /\ last' = [NoCall EXCEPT !.status = r.status]
    /\ UNCHANGED <<disk, handles, files, prev, fresh, forked, pc, loc, page, phist, build, seeks, shadow>>

\* A call on a manager whose directory is nil: fm.files is empty, so getFile
\* goes on to fm.directory.Name(), which dereferences the nil handle.
CallOnNilDirectory(op, filename) ==
    /\ alive /\ directory = "nil"
    /\ Outcome("panic")
    /\ last' = [op |-> op, filename |-> filename, blknum |-> 0, buf |-> <<>>,
                status |-> "panic"]
    /\ UNCHANGED <<disk, handles, files, prev, fresh, forked, pc, loc, page, phist, directory,
                   build, seeks, shadow>>

NextNew ==
    \/ \E o1 \in OpenOutcomes, mk \in MkdirOutcomes, o2 \in OpenOutcomes : New(o1, mk, o2)
    \/ directory = "open" /\ Call
    \/ \E op \in {"read", "write", "append", "length"}, n \in Files : CallOnNilDirectory(op, n)

SpecNew == InitNew /\ [][NextNew]_vars

\* ------------------------------------------------------------------ seek offsets
\* The offsets read and write pass to Seek, for block numbers of any size.
\* An integer is held as its 16-bit limbs, least significant first, in two's
\* complement: an int of the build has build / 16 limbs, an int64 has four.
\* Block numbers and block sizes are not negative; a block size is below 2^15.

Limb == 65536

Builds == {32, 64}

RECURSIVE Carry(_, _, _)
\* The carry out of limb i when a is multiplied by the small number m.
Carry(a, m, i) == IF i = 0 THEN 0 ELSE (a[i] * m + Carry(a, m, i - 1)) \div Limb

\* a * m in the width of a: the product wraps around.
Mul(a, m) == [i \in 1..Len(a) |-> (a[i] * m + Carry(a, m, i - 1)) % Limb]

Negative(a) == a[Len(a)] >= Limb \div 2

\* int64(a): sign extension to four limbs.
Int64(a) == [i \in 1..4 |-> IF i <= Len(a) THEN a[i] ELSE IF Negative(a) THEN Limb - 1 ELSE 0]

\* A block number as an int of the build; it fits when no limb is lost.
NativeInt(a, bits) == SubSeq(a, 1, bits \div 16)

FitsInt(a, bits) ==
    /\ \A i \in DOMAIN a : i > bits \div 16 => a[i] = 0
    /\ ~Negative(NativeInt(a, bits))

\* int64(blk.blknum)*int64(fm.blocksize)
readSeekOffset(blknum, blocksize, bits) == Mul(Int64(NativeInt(blknum, bits)), blocksize)

\* int64(blk.blknum*fm.blocksize)
writeSeekOffset(blknum, blocksize, bits) == Int64(Mul(NativeInt(blknum, bits), blocksize))

\* blknum * blocksize does not fit an int64: limbs of the product are lost.
Wraps(blknum, blocksize) == Carry(blknum, blocksize, 4) # 0 \/ Negative(Mul(blknum, blocksize))

\* n < 2^31 as limbs.
FromInt(n) == <<n % Limb, n \div Limb, 0, 0>>

\* Block numbers around the places where a product leaves 31 and 63 bits.
BigBlockNums ==
    {FromInt(0), FromInt(2), FromInt(5368709), FromInt(5368710), FromInt(2147483647),
     <<0, 0, 1, 0>>, <<0, 0, 0, 16384>>, <<65535, 65535, 65535, 32767>>}

BlockSizes == {1, 4, 400}

InitOff ==
    /\ disk = [n \in Files |-> <<>>]
    /\ handles = <<>>
    /\ files = [n \in Files |-> 0]
    /\ alive = TRUE
    /\ last = NoCall
    /\ prev = NoCall
    /\ fresh = {}
    /\ forked = FALSE
    /\ pc = [t \in Threads |-> "idle"]
    /\ loc = [t \in Threads |-> Idle]
    /\ page = newPage(BlockSize)
    /\ phist = <<>>
    /\ directory = "open"
    /\ build \in Builds
    /\ seeks = <<>>
    /\ shadow = NoShadow

SeekCall(op, blknum, blocksize, offset) ==
    [op |-> op, blknum |-> blknum, blocksize |-> blocksize, offset |-> offset]

\* The manager has one block size: every call of a behaviour has the block
\* size of the first.
SameManager(blocksize) == \A i \in DOMAIN seeks : seeks[i].blocksize = blocksize

ReadSeek(blknum, blocksize) ==
    /\ Len(seeks) < 2
    /\ FitsInt(blknum, build)
    /\ SameManager(blocksize)
    /\ seeks' = Append(seeks, SeekCall("read", blknum, blocksize,
                                       readSeekOffset(blknum, blocksize, build)))
    /\ UNCHANGED <<disk, handles, files, alive, last, prev, fresh, forked, pc, loc, page, phist,
                   directory, build, shadow>>

WriteSeek(blknum, blocksize) ==
    /\ Len(seeks) < 2
    /\ FitsInt(blknum, build)
    /\ SameManager(blocksize)
    /\ seeks' = Append(seeks, SeekCall("write", blknum, blocksize,
                                       writeSeekOffset(blknum, blocksize, build)))
    /\ UNCHANGED <<disk, handles, files, alive, last, prev, fresh, forked, pc, loc, page, phist,
                   directory, build, shadow>>

NextOff ==
    \/ \E k \in BigBlockNums, b \in BlockSizes : ReadSeek(k, b)
    \/ \E k \in BigBlockNums, b \in BlockSizes : WriteSeek(k, b)

SpecOff == InitOff /\ [][NextOff]_vars

\* ------------------------------------------------------------------ Page
\* The accessors of Page, on the buffer p.buf (a sequence of bytes, indexed
\* from 1; offsets are from 0 as in the code).  An accessor returns its
\* result and "ok", or "panic" when the Go runtime's bounds check fails.
\* Pages are as newPage makes them: cap(p.buf) = len(p.buf).

PageLen == 10

int32size == 4

MaxInt32 == 2147483647
MinInt32 == (-2147483647) - 1

\* uint32(n) for an int32 n: the same 32 bits, held as two 16-bit halves.
uint32(n) ==
    IF n >= 0
    THEN [hi |-> n \div 65536, lo |-> n % 65536]
    ELSE LET m == n - MinInt32 IN [hi |-> 32768 + m \div 65536, lo |-> m % 65536]

\* int32(u) for a uint32 u: the same 32 bits, read as two's complement.
int32(u) ==
    IF u.hi >= 32768
    THEN MinInt32 + ((u.hi - 32768) * 65536 + u.lo)
    ELSE u.hi * 65536 + u.lo

\* Mutant of PutUint32: the four bytes in little-endian order.
PutUint32_littleEndian(u) == <<u.lo % 256, u.lo \div 256, u.hi % 256, u.hi \div 256>>

\* binary.BigEndian.PutUint32: the four bytes of u, most significant first.
PutUint32(u) == <<u.hi \div 256, u.hi % 256, u.lo \div 256, u.lo % 256>>

\* binary.BigEndian.Uint32: the value of four bytes, most significant first.
Uint32(b) == [hi |-> b[1] * 256 + b[2], lo |-> b[3] * 256 + b[4]]

\* p.buf[offset:] is a slice of at least four bytes.
IntFits(buf, offset) == offset >= 0 /\ offset + int32size <= Len(buf)

setInt(buf, offset, n) ==
    IF ~IntFits(buf, offset)
    THEN [buf |-> buf, status |-> "panic"]
    ELSE [buf |-> [i \in 1..Len(buf) |->
                      IF i > offset /\ i <= offset + int32size
                      THEN PutUint32(uint32(n))[i - offset] ELSE buf[i]],
          status |-> "ok"]

getInt(buf, offset) ==
    IF ~IntFits(buf, offset)
    THEN [n |-> 0, status |-> "panic"]
    ELSE [n |-> int32(Uint32(SubSeq(buf, offset + 1, offset + int32size))),
          status |-> "ok"]

\* Mutant of setBytes: the bytes are stored from offset, over the length.
setBytes_overPrefix(buf, offset, bs) ==
    LET n == Len(bs)
        i == setInt(buf, offset, n)
    IN  IF i.status = "panic" THEN i
        ELSE IF offset + n > Len(buf) THEN [buf |-> i.buf, status |-> "panic"]
        ELSE [buf |-> [k \in 1..Len(buf) |->
                          IF k > offset /\ k <= offset + n THEN bs[k - offset] ELSE i.buf[k]],
              status |-> "ok"]

\* setInt writes the length; then p.buf[start:end] panics when end is beyond
\* the buffer, and otherwise copy stores the bytes.
setBytes(buf, offset, bs) ==
    LET n == Len(bs)
        i == setInt(buf, offset, n)
        start == offset + int32size
        end == start + n
    IN  IF i.status = "panic" THEN i
        ELSE IF end > Len(buf) THEN [buf |-> i.buf, status |-> "panic"]
        ELSE [buf |-> [k \in 1..Len(buf) |->
                          IF k > start /\ k <= end THEN bs[k - start] ELSE i.buf[k]],
              status |-> "ok"]

\* Mutant of maxLength: the length of the string alone.
maxLength_noPrefix(str) == Len(str)

\* A string is its bytes (len(s) counts bytes).
maxLength(str) == int32size + Len(str)

\* make([]byte, n) panics for a negative n, p.buf[start:end] for an end beyond
\* the buffer (or wrapped around below start).
getBytes(buf, offset) ==
    LET g == getInt(buf, offset)
        start == offset + int32size
    IN  IF g.status = "panic" \/ g.n < 0 \/ g.n > Len(buf) - start
        THEN [bs |-> <<>>, status |-> "panic"]
        ELSE [bs |-> SubSeq(buf, start + 1, start + g.n), status |-> "ok"]

\* Mutant of setString: a terminating zero byte is stored after the string.
setString_terminated(buf, offset, str) ==
    LET r == setBytes(buf, offset, str)
        z == offset + int32size + Len(str) + 1
    IN  IF r.status = "ok" /\ z <= Len(buf)
        THEN [r EXCEPT !.buf = [r.buf EXCEPT ![z] = 0]]
        ELSE r

\* []byte(s) and string(b) keep the bytes as they are.
setString(buf, offset, str) == setBytes(buf, offset, str)

getString(buf, offset) == getBytes(buf, offset)

\* ------------------------------------------------------------------ a caller of Page
\* As testFileManager does: a page, two setter calls at offsets of the
\* caller's choice, then a getter call.  Offsets include ones outside the page
\* and ones that leave too little room.
Offsets == {-1, 0, 1, PageLen - 5, PageLen - 4, PageLen - 3, PageLen}
IntVals == {-1, 4096, MinInt32, MaxInt32}
Strs == {<<>>, <<97>>, <<97, 98>>}

PageCall(op, offset, n, bs, status) ==
    [op |-> op, offset |-> offset, n |-> n, bs |-> bs, status |-> status]

Setters == {"setInt", "setBytes", "setString"}

InitPage ==
    /\ disk = [n \in Files |-> <<>>]
    /\ handles = <<>>
    /\ files = [n \in Files |-> 0]
    /\ alive = TRUE
    /\ last = NoCall
    /\ prev = NoCall
    /\ fresh = {}
    /\ forked = FALSE
    /\ pc = [t \in Threads |-> "idle"]
    /\ loc = [t \in Threads |-> Idle]
    /\ page \in {newPage(PageLen), newPageFromBytes([i \in 1..PageLen |-> 255 - i])}
    /\ phist = <<>>
    /\ directory = "open"
    /\ build = 64
    /\ seeks = <<>>
    /\ shadow = NoShadow

\* The caller can make another setter call: it has made fewer than two and
\* none has panicked or been followed by a getter.
CanSet ==
    /\ Len(phist) < 2
    /\ \A i \in DOMAIN phist : phist[i].status = "ok" /\ phist[i].op \in Setters

CanGet == \A i \in DOMAIN phist : phist[i].status = "ok" /\ phist[i].op \in Setters

FileVars == <<disk, handles, files, alive, last, prev, fresh, forked, pc, loc, directory,
              build, seeks, shadow>>

CallSetInt(offset, n) ==
    /\ CanSet
    /\ LET r == setInt(page.buf, offset, n) IN
        /\ page' = [buf |-> r.buf]
        /\ phist' = Append(phist, PageCall("setInt", offset, n, <<>>, r.status))
    /\ UNCHANGED FileVars

CallSetBytes(offset, bs) ==
    /\ CanSet
    /\ LET r == setBytes(page.buf, offset, bs) IN
        /\ page' = [buf |-> r.buf]
        /\ phist' = Append(phist, PageCall("setBytes", offset, 0, bs, r.status))
    /\ UNCHANGED FileVars

CallSetString(offset, str) ==
    /\ CanSet
    /\ LET r == setString(page.buf, offset, str) IN
        /\ page' = [buf |-> r.buf]
        /\ phist' = Append(phist, PageCall("setString", offset, 0, str, r.status))
    /\ UNCHANGED FileVars

CallGetInt(offset) ==
    /\ CanGet
    /\ LET r == getInt(page.buf, offset) IN
        phist' = Append(phist, PageCall("getInt", offset, r.n, <<>>, r.status))
    /\ UNCHANGED page
    /\ UNCHANGED FileVars

CallGetBytes(offset) ==
    /\ CanGet
    /\ LET r == getBytes(page.buf, offset) IN
        phist' = Append(phist, PageCall("getBytes", offset, 0, r.bs, r.status))
    /\ UNCHANGED page
    /\ UNCHANGED FileVars

CallGetString(offset) ==
    /\ CanGet
    /\ LET r == getString(page.buf, offset) IN
        phist' = Append(phist, PageCall("getString", offset, 0, r.bs, r.status))
    /\ UNCHANGED page
    /\ UNCHANGED FileVars

NextPage ==
    \/ \E o \in Offsets, n \in IntVals : CallSetInt(o, n)
    \/ \E o \in Offsets, b \in Strs : CallSetBytes(o, b)
    \/ \E o \in Offsets, b \in Strs : CallSetString(o, b)
    \/ \E o \in Offsets : CallGetInt(o)
    \/ \E o \in Offsets : CallGetBytes(o)
    \/ \E o \in Offsets : CallGetString(o)

SpecPage == InitPage /\ [][NextPage]_vars

\* ------------------------------------------------------------------ properties
\* Block k of a file's contents d (defined when the file has all of its bytes).
BlockAt(d, k) == SubSeq(d, k * BlockSize + 1, (k + 1) * BlockSize)

\* Offsets (from 1) of the file that the call c, just completed, has written.
Written(c) ==
    IF c.op = "write" THEN c.blknum * BlockSize + 1 .. c.blknum * BlockSize + Len(c.buf)
    ELSE IF c.op = "append" THEN c.blknum * BlockSize + 1 .. (c.blknum + 1) * BlockSize
    ELSE {}

\* C1: when a manager references a file for the first time, the file keeps its
\* length and every byte the call itself does not write keeps its value.
C1_FirstOpenKeepsContents ==
    [][\A n \in Files :
        (files[n] = 0 /\ files'[n] # 0)
        => /\ Len(disk'[n]) >= Len(disk[n])
           /\ \A i \in 1..Len(disk[n]) :
                 i \in Written(last') \/ disk'[n][i] = disk[n][i]]_vars

\* C2: when every goroutine has completed an append on the same file, the block
\* numbers returned are pairwise distinct and form a contiguous range.
C2_ConcurrentAppendsDistinct ==
    (\A t \in Threads : pc[t] = "done" /\ loc[t].op = "append"
                        /\ \A u \in Threads : loc[u].filename = loc[t].filename)
    => LET got == {loc[t].blknum : t \in Threads} IN
        /\ Cardinality(got) = Cardinality(Threads)
        /\ \A a \in got, b \in got : \A k \in a..b : k \in got

\* C3: a read of a block with a page of block size, made right after a write of
\* a page of block size to the same block, succeeds and returns the bytes written.
C3_WriteThenRead ==
    (/\ prev.op = "write" /\ prev.status = "ok" /\ Len(prev.buf) = BlockSize
     /\ last.op = "read" /\ Len(last.buf) = BlockSize
     /\ last.filename = prev.filename /\ last.blknum = prev.blknum)
    => (last.status = "ok" /\ last.buf = prev.buf)

\* The write was to a block beyond the end of a fresh file (block 2, as in
\* testFileManager), the page was not all zeros, and the read has completed.
C3_Witness ==
    /\ prev.op = "write" /\ prev.blknum = 2 /\ prev.buf \in FullBufs
    /\ prev.buf[1] # prev.buf[BlockSize]
    /\ last.op = "read" /\ last.blknum = 2 /\ Len(last.buf) = BlockSize
    /\ Len(handles) = 1 /\ Len(disk[last.filename]) = 3 * BlockSize
    /\ BlockAt(disk[last.filename], 0) = ZeroBlock

\* C4 (as stated): the length of a file changes only in an append on that file,
\* and then by exactly one block.
C4_OnlyAppendChangesLength ==
    [][\A n \in Files :
        Len(disk'[n]) # Len(disk[n])
        => /\ last'.op = "append" /\ last'.filename = n
           /\ Len(disk'[n]) = Len(disk[n]) + BlockSize]_vars

\* C4 (amended): the length of a file grows only in an append or a write on that
\* file; an append grows it by exactly one block (as counted by length), a write
\* grows it exactly when it ends beyond the old end, and then to the end of
\* what it wrote; read and length never grow a file.
C4_GrowsOnlyByAppendOrWrite ==
    [][\A n \in Files :
        LET old == Len(disk[n])
            new == Len(disk'[n])
            end == last'.blknum * BlockSize + Len(last'.buf)
        IN  /\ new > old
               => /\ last'.op \in {"append", "write"} /\ last'.filename = n
                  /\ last'.op = "append" => new \div BlockSize = old \div BlockSize + 1
                  /\ last'.op = "write" => new = end
            /\ (files[n] # 0 /\ last'.op = "write" /\ last'.filename = n)
               => new = Max(old, end)
            /\ last'.op \in {"read", "length"} => new <= old]_vars

\* A write to block 2 has grown a file that held no appended block and no
\* written block below it to three blocks.
C4_Witness ==
    /\ last.op = "write" /\ last.blknum = 2 /\ Len(last.buf) = BlockSize
    /\ prev = NoCall /\ fresh = {} /\ Len(handles) = 1
    /\ Len(disk[last.filename]) = 3 * BlockSize
    /\ BlockAt(disk[last.filename], 0) = ZeroBlock
    /\ BlockAt(disk[last.filename], 1) = ZeroBlock

\* C5: the length of every file the manager has opened is a multiple of the
\* block size.
C5_LengthIsBlockAligned ==
    \A n \in Files : files[n] # 0 => Len(disk[n]) % BlockSize = 0

\* C6: append(f) returns a BlockID with filename f and the number that length(f)
\* returns right before the call; right after the call length(f) returns that
\* number plus one.
C6_AppendReturnsLength ==
    [][\A n \in Files :
        CallAppend(n)
        => /\ last'.filename = n
           /\ last'.status = "ok"
           /\ last'.blknum = length(W, n).len
           /\ length([disk |-> disk', handles |-> handles', files |-> files'], n).len
                 = last'.blknum + 1]_vars

\* An append on a file of two blocks has returned block 2.
C6_Witness ==
    /\ last.op = "append" /\ last.blknum = 2 /\ last.status = "ok"
    /\ newBlockID(last.filename, 1) \in fresh
    /\ Len(disk[last.filename]) = 3 * BlockSize

\* C7: every block returned by an append of this manager and not written since
\* reads back, with a page of block size, as block-size zero bytes.
C7_AppendedBlockReadsZero ==
    alive =>
    \A blk \in fresh :
        LET r == read(W, blk, newPage(BlockSize)) IN
            r.status = "ok" /\ r.buf = ZeroBlock

\* A block appended after non-zero data, with other calls made since the append.
C7_Witness ==
    /\ alive
    /\ newBlockID("f", 1) \in fresh
    /\ BlockAt(disk["f"], 0) \in FullBufs
    /\ last.op = "write" /\ last.blknum = 2 /\ last.buf \in FullBufs

\* C8: when two goroutines sharing the one handle of a file have each completed
\* a write to distinct blocks, each block holds the page written to it; and a
\* read completed next to a write to another block returned the block it asked for.
C8_ConcurrentTransfersSerialized ==
    \A t \in Threads, u \in Threads :
        (/\ t # u /\ pc[t] = "done" /\ pc[u] = "done"
         /\ Len(handles) = 1
         /\ loc[t].filename = loc[u].filename /\ loc[t].blknum # loc[u].blknum
         /\ loc[u].op = "write" /\ loc[t].op \in {"read", "write"})
        => /\ Len(disk[loc[t].filename]) >= (loc[t].blknum + 1) * BlockSize
           /\ BlockAt(disk[loc[t].filename], loc[t].blknum) = loc[t].buf

\* C9: at most one handle is ever opened for a filename during a manager's life.
C9_OneHandlePerFilename ==
    \A i \in DOMAIN handles, j \in DOMAIN handles :
        handles[i].name = handles[j].name => i = j

\* C10: a read with a page of block size panics whenever the file holds fewer
\* than block-size bytes at the block's offset; a read that succeeds has filled
\* the page with the whole block.
C10_ShortReadFails ==
    [][\A n \in Files, k \in BlockNums :
        (/\ last'.op = "read" /\ last'.filename = n /\ last'.blknum = k
         /\ Len(last'.buf) = BlockSize)
        => /\ Len(disk[n]) < (k + 1) * BlockSize
              => (last'.status = "panic" /\ ~alive')
           /\ last'.status = "ok"
              => last'.buf = BlockAt(disk'[n], k)]_vars

\* A read of a block of which the file holds one byte only has panicked.
C10_Witness ==
    /\ last.op = "read" /\ last.status = "panic" /\ Len(last.buf) = BlockSize
    /\ prev.op = "write"
    /\ Len(disk[last.filename]) = last.blknum * BlockSize + 1

\* C11: length returns a block count only for a file whose size is a multiple
\* of the block size; for any other size the call reports a failure.
C11_LengthRejectsUnaligned ==
    (last.op = "length" /\ last.status = "ok")
    => Len(disk[last.filename]) % BlockSize = 0

\* C13: a call that fails leaves the process running, so that the same manager
\* can take further calls.
C13_FailureLeavesProcessRunning ==
    last.status # "ok" => alive


\* ------------------------------------------------------------------ properties of Page

\* The step was a call of a setter that stored bytes behind a length.
SetBytesStep ==
    /\ phist' # phist
    /\ phist'[Len(phist')].op \in {"setBytes", "setString"}

\* C12: a set_bytes (or set_string) call that fails leaves the page buffer as
\* it was before the call.
C12_FailedSetBytesLeavesPage ==
    [][(SetBytesStep /\ phist'[Len(phist')].status = "panic") => page' = page]_vars

\* Call i stored a value with setter s at an offset where it fits, and call
\* i + 1 is getter g at the same offset.
SetThenGet(i, s, g) ==
    /\ i \in DOMAIN phist /\ i + 1 \in DOMAIN phist
    /\ phist[i].op = s
    /\ phist[i + 1].op = g
    /\ phist[i + 1].offset = phist[i].offset
    /\ phist[i].offset >= 0
    /\ phist[i].offset + int32size + Len(phist[i].bs) <= Len(page.buf)

\* C15: set_bytes(o, b) followed by get_bytes(o) returns b whenever
\* o + 4 + len(b) is at most the page size, and set_string followed by
\* get_string returns the string in the same way.
C15_BytesRoundTrip ==
    \A i \in DOMAIN phist :
        (SetThenGet(i, "setBytes", "getBytes") \/ SetThenGet(i, "setString", "getString"))
        => /\ phist[i].status = "ok"
           /\ phist[i + 1].status = "ok"
           /\ phist[i + 1].bs = phist[i].bs

C15_Witness ==
    /\ Len(phist) = 2
    /\ SetThenGet(1, "setBytes", "getBytes")
    /\ phist[1].bs = <<97, 98>>
    /\ phist[1].offset = 1
    /\ phist[2].status = "ok"

\* C16: set_int(o, n) followed by get_int(o) returns n for every int32 n,
\* negative values and both extremes included, and the four bytes at o are n in
\* big-endian two's complement.
C16_IntRoundTrip ==
    LET Encoded(n) == CASE n = -1 -> <<255, 255, 255, 255>>
                        [] n = 4096 -> <<0, 0, 16, 0>>
                        [] n = MinInt32 -> <<128, 0, 0, 0>>
                        [] n = MaxInt32 -> <<127, 255, 255, 255>>
    IN  \A i \in DOMAIN phist :
            (/\ phist[i].op = "setInt"
             /\ phist[i].status = "ok"
             /\ (i = Len(phist) \/ phist[i + 1].op \in {"getInt", "getBytes", "getString"}))
            => /\ SubSeq(page.buf, phist[i].offset + 1, phist[i].offset + int32size)
                    = Encoded(phist[i].n)
               /\ (SetThenGet(i, "setInt", "getInt")
                   => phist[i + 1].status = "ok" /\ phist[i + 1].n = phist[i].n)

C16_Witness ==
    /\ Len(phist) = 2
    /\ SetThenGet(1, "setInt", "getInt")
    /\ phist[1].n = MinInt32
    /\ phist[2].status = "ok"

\* The bytes a stored field occupies: a string maxLength(s), an int int32size.
FieldSize(c) == IF c.op = "setInt" THEN int32size ELSE maxLength(c.bs)

\* The value a getter returned equals the value call c stored.
ReadsBack(g, c) ==
    /\ g.status = "ok"
    /\ IF c.op = "setInt" THEN g.n = c.n ELSE g.bs = c.bs

Getter(c) ==
    CASE c.op = "setInt" -> "getInt"
      [] c.op = "setBytes" -> "getBytes"
      [] c.op = "setString" -> "getString"

\* Two successful setter calls stored fields that do not overlap, and the
\* third call reads field k back.
AdjacentFields(k) ==
    /\ Len(phist) = 3
    /\ "setString" \in {phist[1].op, phist[2].op}
    /\ phist[1].status = "ok" /\ phist[2].status = "ok"
    /\ \/ phist[1].offset + FieldSize(phist[1]) <= phist[2].offset
       \/ phist[2].offset + FieldSize(phist[2]) <= phist[1].offset
    /\ phist[3].op = Getter(phist[k])
    /\ phist[3].offset = phist[k].offset

\* C17: a successful set_string(o, s) changes only bytes in
\* [o, o + max_length(s)), so that a string field and another field laid out
\* one after the other without overlap both read back as stored.
C17_SetStringStaysInField ==
    [][/\ (/\ phist' # phist
           /\ phist'[Len(phist')].op = "setString"
           /\ phist'[Len(phist')].status = "ok")
          => \A k \in 1..Len(page.buf) :
                (k <= phist'[Len(phist')].offset
                 \/ k > phist'[Len(phist')].offset + maxLength(phist'[Len(phist')].bs))
                => page'.buf[k] = page.buf[k]
       /\ \A k \in {1, 2} : AdjacentFields(k)' => ReadsBack(phist'[3], phist'[k])]_vars

C17_Witness ==
    /\ AdjacentFields(1)
    /\ phist[1].op = "setString"
    /\ phist[1].bs = <<97>>
    /\ phist[2].op = "setInt"
    /\ phist[2].offset = phist[1].offset + maxLength(phist[1].bs)
    /\ phist[3].bs = <<97>>

\* ------------------------------------------------------------------ properties of construction

\* C14: a manager that newFileManager has returned holds a directory handle
\* that was opened successfully.
C14_ReturnedManagerHasDirectory ==
    (last.op = "new" /\ last.status = "ok") => directory = "open"

\* ------------------------------------------------------------------ properties of the seek offsets

\* C18: for every block number and block size, write seeks to the offset that
\* read seeks to, and that offset is blknum * blocksize without wrap-around.
C18_WriteSeeksWhereReadSeeks ==
    \A i, j \in DOMAIN seeks :
        (/\ seeks[i].op = "read"
         /\ seeks[j].op = "write"
         /\ seeks[j].blknum = seeks[i].blknum)
        => /\ seeks[j].offset = seeks[i].offset
           /\ ~Wraps(seeks[i].blknum, seeks[i].blocksize)

\* ------------------------------------------------------------------ the files as a map of blocks

\* C19: a successful read of a block with a page of block size returns the page
\* that the manager's most recent write stored in that block, or zeros when the
\* manager has not written the block, whatever was written or appended to other
\* blocks and other files in between.
C19_ReadReturnsLastWrite ==
    (last.op = "read" /\ last.status = "ok" /\ Len(last.buf) = BlockSize)
    => LET s == shadow[newBlockID(last.filename, last.blknum)] IN
        /\ s.kind = "page" => last.buf = s.buf
        /\ s.kind = "none" => last.buf = ZeroBlock

\* Block 0 was written, then another page was written to block 1 and the other
\* file was written to as well, and block 0 has been read back.
C19_Witness ==
    /\ last.op = "read" /\ last.status = "ok" /\ last.blknum = 0
    /\ last.filename \in Files
    /\ shadow[newBlockID(last.filename, 0)].kind = "page"
    /\ shadow[newBlockID(last.filename, 1)].kind = "page"
    /\ shadow[newBlockID(last.filename, 1)].buf # shadow[newBlockID(last.filename, 0)].buf
    /\ shadow[newBlockID(last.filename, 2)].kind = "none"
    /\ Len(disk[last.filename]) = 3 * BlockSize
    /\ shadow[newBlockID(OtherFile, 0)].kind = "page"
    /\ Len(disk[OtherFile]) > BlockSize

====
